---------------------------- MODULE Spec2Model ----------------------------
(***************************************************************************)
(* Model of src/main.py: a FastAPI service that forwards one uploaded file *)
(* to Google Drive (POST /upload) and reports liveness (GET /health).      *)
(*                                                                         *)
(* Strings that the code parses, formats or splits are sequences of        *)
(* tokens (a path separator, a digit, a name component), so that           *)
(* os.path.basename, int() and the f-string are computed, not assumed.     *)
(* An optional value (dict.get, Optional[str]) is a sequence of length 0   *)
(* (None / absent) or 1.                                                   *)
(* os.path is posixpath: the service is modelled on a POSIX host.          *)
(* Log lines and GET /test change no state and are left out.               *)
(***************************************************************************)
EXTENDS Integers, Sequences, FiniteSets, TLC

VARIABLES
    env,        \* the process environment (os.getenv) and the credentials file it names
    tempFile,   \* ./temp_credentials.json: "absent", "truncated" (opened for writing,
                \* nothing written yet) or the kind of content it holds
    clock,      \* the host's wall clock, in ticks (time.time())
    req,        \* per request: its inputs, the handler's locals and its position
    resp,       \* per request: the HTTP response sent, if any
    drive,      \* objects created in the storage backend
    healthLog   \* timestamps returned by GET /health, in call order

vars == <<env, tempFile, clock, req, resp, drive, healthLog>>

-----------------------------------------------------------------------------
(* Bounds of the model *)

NumRequests == 2        \* requests in flight in the concurrent specification
MaxClock == 2           \* wall-clock readings range over 0..MaxClock ticks
TicksPerSecond == 2     \* ticks of the wall clock per second
MaxPayload == 2         \* longest uploaded payload, in bytes
MaxHealthCalls == 3     \* GET /health calls recorded

HTTP_200_OK == 200
HTTP_500_INTERNAL_SERVER_ERROR == 500

Requests == 1..NumRequests
Times == 0..MaxClock

None == <<>>
Some(x) == <<x>>
Range(s) == {s[i] : i \in 1..Len(s)}

-----------------------------------------------------------------------------
(* Input domains *)

\* GOOGLE_SERVICE_ACCOUNT_PATH and the file it names:
\*   unset / empty string / names no existing file / names an existing file
\*   that is a valid key, is not a service-account key (malformed JSON or
\*   missing fields), is not UTF-8 text, or cannot be opened.
PathKinds == {"unset", "empty", "missing", "valid", "malformed", "undecodable", "unreadable"}
\* GOOGLE_SERVICE_ACCOUNT_KEY: unset / empty / not JSON / a JSON object that
\* is not a service-account key / a valid key.
KeyKinds == {"unset", "empty", "malformed", "badinfo", "valid"}
\* GOOGLE_SERVICE_ACCOUNT_CONTENT: unset / empty / not a key / a valid key.
ContentKinds == {"unset", "empty", "malformed", "valid"}
\* GOOGLE_DRIVE_FOLDER_ID
FolderKinds == {"unset", "empty", "set"}

Envs == [path : PathKinds, key : KeyKinds, content : ContentKinds, folder : FolderKinds]

\* Original filenames sent by the client, as token sequences.
Filenames ==
    { <<"report.txt">>,
      <<"..", "/", "..", "/", "etc", "/", "passwd">>,
      <<"dir", "\\", "evil.txt">>,
      <<"a", "\\", "b", "/", "c">>,
      <<"dir", "/">>,
      <<"..">> }

\* Uploaded payloads: byte sequences of length 0..MaxPayload.
Byte == {0}
Payloads == UNION {[1..n -> Byte] : n \in 0..MaxPayload}

\* Declared content type of the uploaded part (UploadFile.content_type is Optional).
ContentTypes == {None, Some("text/plain")}

\* Values the backend may report in the "size" field (a decimal string in
\* the Drive API; the handler passes whatever arrives to int()).
SizeValues == { <<"0">>, <<"1", "2">>, <<"1", "x">> }

-----------------------------------------------------------------------------
(* Library functions the handler calls, computed as the library computes them *)

\* posixpath.basename(p): i = p.rfind('/') + 1; return p[i:]
LastSlash(p) ==
    LET at == {i \in 1..Len(p) : p[i] = "/"}
    IN  IF at = {} THEN 0 ELSE CHOOSE i \in at : \A j \in at : j <= i

Basename(p) == SubSeq(p, LastSlash(p) + 1, Len(p))

\* int(x) of a non-negative float: truncation to whole seconds.
IntSeconds(t) == t \div TicksPerSecond

Digits == <<"0", "1", "2", "3", "4", "5", "6", "7", "8", "9">>

\* format(n) of a non-negative int inside an f-string: its decimal digits.
RECURSIVE DecimalString(_)
DecimalString(n) ==
    IF n < 10 THEN <<Digits[n + 1]>>
    ELSE DecimalString(n \div 10) \o <<Digits[(n % 10) + 1]>>

\* int(s) of a str: defined on non-empty digit strings, ValueError otherwise.
IsDecimal(s) == Len(s) > 0 /\ \A i \in 1..Len(s) : s[i] \in Range(Digits)

DigitValue(c) == (CHOOSE d \in 1..10 : Digits[d] = c) - 1

RECURSIVE DecimalValue(_)
DecimalValue(s) ==
    IF Len(s) = 0 THEN 0
    ELSE 10 * DecimalValue(SubSeq(s, 1, Len(s) - 1)) + DigitValue(s[Len(s)])

\* round(seconds, 2) of a difference of two clock readings, in hundredths
\* of a second (ties to even).
RoundHundredths(ticks) ==
    LET n == ticks * 100
        q == n \div TicksPerSecond
        rem == n % TicksPerSecond
    IN  IF 2 * rem < TicksPerSecond THEN q
        ELSE IF 2 * rem > TicksPerSecond THEN q + 1
        ELSE IF q % 2 = 0 THEN q ELSE q + 1

\* f"{int(time.time())}_{original_name}"
SafeFilename(now, filename) ==
    DecimalString(IntSeconds(now)) \o <<"_">> \o Basename(filename)

-----------------------------------------------------------------------------
(* Exceptions and their mapping to HTTP responses *)

\* Python's class hierarchy, as far as the handler's except clauses see it.
Bases(class) ==
    CASE class = "JSONDecodeError" -> {"JSONDecodeError", "ValueError", "Exception"}
      [] class = "UnicodeDecodeError" -> {"UnicodeDecodeError", "ValueError", "Exception"}
      [] class = "ValueError" -> {"ValueError", "Exception"}
      [] class = "HttpError" -> {"HttpError", "Exception"}
      [] class = "PermissionError" -> {"PermissionError", "OSError", "Exception"}
      [] class = "OSError" -> {"OSError", "Exception"}
      [] OTHER -> {class, "Exception"}

IsInstance(exc, class) == class \in Bases(exc.class)

\* What went wrong, independently of the Python class that reports it.
Causes == {"configuration", "backend", "io", "encoding", "interpretation"}

Exc(class, cause, msg) == [class |-> class, cause |-> cause, msg |-> msg]

NoCredentials ==
    Exc("ValueError", "configuration",
        <<"No Google credentials found. Please set ", "GOOGLE_SERVICE_ACCOUNT_PATH",
          " or ", "GOOGLE_SERVICE_ACCOUNT_KEY">>)

InvalidKeyJson ==
    Exc("ValueError", "configuration", <<"Invalid JSON in ", "GOOGLE_SERVICE_ACCOUNT_KEY">>)

FolderNotSet ==
    Exc("ValueError", "configuration",
        <<"GOOGLE_DRIVE_FOLDER_ID", " environment variable is not set">>)

\* Raised by google.oauth2.service_account for a key it cannot use.
BadServiceAccountInfo ==
    Exc("ValueError", "configuration", <<"Service account info was not in the expected format">>)

BadServiceAccountFile ==
    Exc("JSONDecodeError", "configuration", <<"Expecting value">>)

UndecodableFile ==
    Exc("UnicodeDecodeError", "encoding", <<"'utf-8' codec can't decode byte">>)

UnreadableFile ==
    Exc("PermissionError", "io", <<"Permission denied">>)

BackendRejected ==
    Exc("HttpError", "backend", <<"HttpError 4xx/5xx">>)

TransportFailed ==
    Exc("OSError", "io", <<"connection failed">>)

BadSize ==
    Exc("ValueError", "interpretation", <<"invalid literal for int() with base 10">>)

NoResponse ==
    [status |-> 0, kind |-> "none", error |-> None,
     file_id |-> None, file_name |-> None, file_size |-> 0,
     mime_type |-> None, upload_time |-> 0]

ErrorResponse(kind, prefix, exc) ==
    [NoResponse EXCEPT !.status = HTTP_500_INTERNAL_SERVER_ERROR,
                       !.kind = kind,
                       !.error = <<prefix>> \o exc.msg]

\* The handler's except clauses, tried in order, and http_exception_handler.
HandleException(exc) ==
    IF IsInstance(exc, "ValueError")
        THEN ErrorResponse("config", "Server configuration error: ", exc)
    ELSE IF IsInstance(exc, "HttpError")
        THEN ErrorResponse("backend", "Google Drive API error: ", exc)
    ELSE ErrorResponse("generic", "Upload failed: ", exc)

\* A return value that fails validation against UploadResponse is answered
\* by the framework: 500 with a plain-text body, no {error: ...} object.
InternalServerError ==
    [NoResponse EXCEPT !.status = HTTP_500_INTERNAL_SERVER_ERROR, !.kind = "internal"]

-----------------------------------------------------------------------------
(* State of one request *)

NoUpload == [id |-> None, name |-> None, size |-> None, mimeType |-> None]

\* A request that has been sent and not yet received by the handler.
NewRequest(filename, payload, content_type) ==
    [pc |-> "idle",
     filename |-> filename, payload |-> payload, content_type |-> content_type,
     start_time |-> 0,
     source |-> "none",          \* credential source get_drive_service used
     drive_service |-> FALSE,    \* whether get_drive_service returned a service
     file_size |-> 0,
     safe_filename |-> None,
     named_at |-> 0,             \* clock reading that went into safe_filename
     uploaded_file |-> NoUpload, \* the backend's answer to files().create()
     raised |-> None,            \* the exception raised inside the handler, if any
     steps |-> <<>>]             \* steps of the handler executed so far, in order

\* What the backend may answer to a successful create call: each requested
\* field present or not; "name" echoes the submitted name.
BackendResponses(name) ==
    [id : {None, Some("drive-file-id")},
     name : {None, Some(name)},
     size : {None} \cup {Some(v) : v \in SizeValues},
     mimeType : {None, Some("application/octet-stream")}]

At(r, pc) == req[r].pc = pc

\* The handler leaves through an except clause: the response is the mapped error.
Raise(r, exc, step) ==
    /\ req' = [req EXCEPT ![r].pc = "done",
                          ![r].raised = Some(exc),
                          ![r].steps = Append(@, step)]
    /\ resp' = [resp EXCEPT ![r] = HandleException(exc)]

-----------------------------------------------------------------------------
(* get_drive_service *)

PathUsable == env.path \notin {"unset", "empty", "missing"}
KeyGiven == env.key \notin {"unset", "empty"}
ContentGiven == env.content \notin {"unset", "empty"}

\* Mutant of SelectSource: the inline key is tried before the credentials file.
SelectSourceKeyFirst ==
    IF KeyGiven THEN "key"
    ELSE IF PathUsable THEN "file"
    ELSE IF ContentGiven THEN "content"
    ELSE "none"

\* The source the fallback chain selects: "file", "key", "content" or "none".
SelectSource ==
    IF PathUsable THEN "file"
    ELSE IF ~KeyGiven THEN (IF ContentGiven THEN "content" ELSE "none")
    ELSE "key"

\* service_account.Credentials.from_service_account_file(path)
LoadFile(kind) ==
    CASE kind = "valid" -> None
      [] kind = "malformed" -> Some(BadServiceAccountFile)
      [] kind = "truncated" -> Some(BadServiceAccountFile)
      [] kind = "undecodable" -> Some(UndecodableFile)
      [] kind = "unreadable" -> Some(UnreadableFile)

\* Mutant of LoadKey: json.JSONDecodeError is not caught and re-raised as
\* ValueError("Invalid JSON in GOOGLE_SERVICE_ACCOUNT_KEY").
LoadKeyUncaught(kind) ==
    CASE kind = "valid" -> None
      [] kind = "malformed" -> Some(BadServiceAccountFile)
      [] kind = "badinfo" -> Some(BadServiceAccountInfo)

\* json.loads(key) and Credentials.from_service_account_info(dict)
LoadKey(kind) ==
    CASE kind = "valid" -> None
      [] kind = "malformed" -> Some(InvalidKeyJson)
      [] kind = "badinfo" -> Some(BadServiceAccountInfo)

Resolved(r, source) ==
    /\ req' = [req EXCEPT ![r].pc = "folder",
                          ![r].source = source,
                          ![r].drive_service = TRUE,
                          ![r].steps = Append(@, "credentials")]
    /\ UNCHANGED resp

Failed(r, source, exc) ==
    /\ req' = [req EXCEPT ![r].pc = "done",
                          ![r].source = source,
                          ![r].raised = Some(exc),
                          ![r].steps = Append(@, "credentials")]
    /\ resp' = [resp EXCEPT ![r] = HandleException(exc)]

\* upload_file is entered: start_time is taken.
Receive(r) ==
    /\ At(r, "idle")
    /\ req' = [req EXCEPT ![r].pc = "credentials", ![r].start_time = clock]
    /\ UNCHANGED <<env, tempFile, clock, resp, drive, healthLog>>

\* get_drive_service up to the point where the credentials are loaded, or,
\* for source (3), up to the opening of temp_credentials.json for writing
\* (which truncates it).
ResolveCredentials(r) ==
    /\ At(r, "credentials")
    /\ LET source == SelectSource IN
        CASE source = "file" ->
                /\ IF LoadFile(env.path) = None
                      THEN Resolved(r, source)
                      ELSE Failed(r, source, LoadFile(env.path)[1])
                /\ UNCHANGED tempFile
          [] source = "key" ->
                /\ IF LoadKey(env.key) = None
                      THEN Resolved(r, source)
                      ELSE Failed(r, source, LoadKey(env.key)[1])
                /\ UNCHANGED tempFile
          [] source = "content" ->
                /\ tempFile' = "truncated"
                /\ req' = [req EXCEPT ![r].pc = "temp_write", ![r].source = source]
                /\ UNCHANGED resp
          [] source = "none" ->
                /\ Failed(r, source, NoCredentials)
                /\ UNCHANGED tempFile
    /\ UNCHANGED <<env, clock, drive, healthLog>>

\* Path.write_text: the content reaches the file.
WriteTemp(r) ==
    /\ At(r, "temp_write")
    /\ tempFile' = env.content
    /\ req' = [req EXCEPT ![r].pc = "temp_load"]
    /\ UNCHANGED <<env, clock, resp, drive, healthLog>>

\* from_service_account_file("temp_credentials.json"): reads what the file holds now.
LoadTemp(r) ==
    /\ At(r, "temp_load")
    /\ IF LoadFile(tempFile) = None
          THEN Resolved(r, "content")
          ELSE Failed(r, "content", LoadFile(tempFile)[1])
    /\ UNCHANGED <<env, tempFile, clock, drive, healthLog>>

-----------------------------------------------------------------------------
(* upload_file *)

\* Mutant of CheckFolder: the folder id is read but not checked.
CheckFolderUnchecked(r) ==
    /\ At(r, "folder")
    /\ req' = [req EXCEPT ![r].pc = "read", ![r].steps = Append(@, "folder")]
    /\ UNCHANGED <<env, tempFile, clock, resp, drive, healthLog>>

CheckFolder(r) ==
    /\ At(r, "folder")
    /\ IF env.folder \in {"unset", "empty"}
          THEN Raise(r, FolderNotSet, "folder")
          ELSE /\ req' = [req EXCEPT ![r].pc = "read", ![r].steps = Append(@, "folder")]
               /\ UNCHANGED resp
    /\ UNCHANGED <<env, tempFile, clock, drive, healthLog>>

\* The body is read and measured, the stored name and the metadata are built.
ReadBody(r) ==
    /\ At(r, "read")
    /\ req' = [req EXCEPT ![r].pc = "create",
                          ![r].file_size = Len(req[r].payload),
                          ![r].safe_filename = SafeFilename(clock, req[r].filename),
                          ![r].named_at = clock,
                          ![r].steps = Append(@, "read")]
    /\ UNCHANGED <<env, tempFile, clock, resp, drive, healthLog>>

\* drive_service.files().create(...).execute(): the backend creates the
\* object and answers, or rejects the call, or cannot be reached.
CreateObject(r) ==
    /\ At(r, "create")
    /\ \/ \E answer \in BackendResponses(req[r].safe_filename) :
            /\ drive' = drive \cup {[by |-> r, name |-> req[r].safe_filename,
                                     size |-> Len(req[r].payload)]}
            /\ req' = [req EXCEPT ![r].pc = "return",
                                  ![r].uploaded_file = answer,
                                  ![r].steps = Append(@, "create")]
            /\ UNCHANGED resp
       \/ /\ Raise(r, BackendRejected, "create")
          /\ UNCHANGED drive
       \/ /\ Raise(r, TransportFailed, "create")
          /\ UNCHANGED drive
    /\ UNCHANGED <<env, tempFile, clock, healthLog>>

\* dict.get(key, default)
Get(field, default) == IF field = None THEN default ELSE field

\* Mutant of ReturnValue: uploaded_file.get("size", 0), no local fallback.
ReturnValueNoFallback(r, now) ==
    LET u == req[r].uploaded_file IN
    [NoResponse EXCEPT
        !.status = HTTP_200_OK,
        !.kind = "ok",
        !.file_id = u.id,
        !.file_name = u.name,
        !.file_size = IF u.size = None THEN 0 ELSE DecimalValue(u.size[1]),
        !.mime_type = Get(u.mimeType, req[r].content_type),
        !.upload_time = RoundHundredths(now - req[r].start_time)]

\* The returned dict, before validation.
ReturnValue(r, now) ==
    LET u == req[r].uploaded_file IN
    [NoResponse EXCEPT
        !.status = HTTP_200_OK,
        !.kind = "ok",
        !.file_id = u.id,
        !.file_name = u.name,
        !.file_size = IF u.size = None THEN req[r].file_size ELSE DecimalValue(u.size[1]),
        !.mime_type = Get(u.mimeType, req[r].content_type),
        !.upload_time = RoundHundredths(now - req[r].start_time)]

\* response_model=UploadResponse: file_id, file_name and mime_type are str.
ValidResponse(v) == v.file_id # None /\ v.file_name # None /\ v.mime_type # None

\* The response is built from the backend's answer and validated.
BuildResponse(r) ==
    /\ At(r, "return")
    /\ LET u == req[r].uploaded_file IN
        IF u.size # None /\ ~IsDecimal(u.size[1])
            THEN Raise(r, BadSize, "return")
        ELSE /\ req' = [req EXCEPT ![r].pc = "done", ![r].steps = Append(@, "return")]
             /\ resp' = [resp EXCEPT ![r] =
                            IF ValidResponse(ReturnValue(r, clock))
                                THEN ReturnValue(r, clock)
                                ELSE InternalServerError]
    /\ UNCHANGED <<env, tempFile, clock, drive, healthLog>>

-----------------------------------------------------------------------------
(* The wall clock and GET /health *)

Tick ==
    /\ clock < MaxClock
    /\ clock' = clock + 1
    /\ UNCHANGED <<env, tempFile, req, resp, drive, healthLog>>

\* The host's clock is set (NTP step, operator): time.time() follows it.
ClockAdjust ==
    /\ \E t \in Times \ {clock} : clock' = t
    /\ UNCHANGED <<env, tempFile, req, resp, drive, healthLog>>

HealthCheck ==
    /\ Len(healthLog) < MaxHealthCalls
    /\ healthLog' = Append(healthLog, clock)
    /\ UNCHANGED <<env, tempFile, clock, req, resp, drive>>

-----------------------------------------------------------------------------
(* Specifications *)

Handler(r) ==
    \/ Receive(r)
    \/ ResolveCredentials(r)
    \/ WriteTemp(r)
    \/ LoadTemp(r)
    \/ CheckFolder(r)
    \/ ReadBody(r)
    \/ CreateObject(r)
    \/ BuildResponse(r)

\* A request that is never sent.
Unsent == NewRequest(<<"report.txt">>, <<>>, None)

\* The state after start-up: the environment is one of envs, and each
\* request of senders is about to arrive with inputs from requests.
InitWith(envs, requests, senders) ==
    /\ env \in envs
    /\ tempFile = "absent"
    /\ clock \in Times
    /\ \E sent \in [senders -> requests] :
          req = [r \in Requests |-> IF r \in senders THEN sent[r] ELSE Unsent]
    /\ resp = [r \in Requests |-> NoResponse]
    /\ drive = {}
    /\ healthLog = <<>>

AllRequests ==
    {NewRequest(f, p, c) : f \in Filenames, p \in Payloads, c \in ContentTypes}

\* Requests with a plain name, a non-empty payload and a declared type.
SampleRequests == {NewRequest(<<"report.txt">>, p, Some("text/plain")) : p \in Payloads \ {<<>>}}

\* Deployments in which credentials resolve and the folder is configured.
UploadEnvs ==
    {e \in Envs : /\ e.folder = "set"
                  /\ e.path \in {"unset", "valid"}
                  /\ e.key \in {"unset", "valid"}
                  /\ e.content = "valid"}

\* One request, any environment.
Init == InitWith(Envs, SampleRequests, {1})

Next == Handler(1) \/ Tick \/ ClockAdjust

Spec == Init /\ [][Next]_vars

\* One request with any inputs, in a working deployment.
InitUpload == InitWith(UploadEnvs, AllRequests, {1})

SpecUpload == InitUpload /\ [][Next]_vars

\* Requests handled concurrently by workers that share the working directory
\* (the clock is read but does not move while they run).
WorkerRequests == {NewRequest(<<"report.txt">>, <<0>>, Some("text/plain"))}

InitWorkers == InitWith(Envs, WorkerRequests, Requests)

NextWorkers == \E r \in Requests : Handler(r)

SpecWorkers == InitWorkers /\ [][NextWorkers]_vars

\* GET /health on a host whose clock runs and may be set.
InitHealth == InitWith(UploadEnvs, {}, {})

NextHealth == HealthCheck \/ Tick \/ ClockAdjust

SpecHealth == InitHealth /\ [][NextHealth]_vars

-----------------------------------------------------------------------------
(* Properties *)

Done(r) == req[r].pc = "done"
Succeeded(r) == Done(r) /\ resp[r].status = HTTP_200_OK
Issued(r) == "create" \in Range(req[r].steps)
Created(r) == \E o \in drive : o.by = r
Separators == {"/", "\\"}

\* The part of a filename after its last separator of either kind.
LastComponent(p) ==
    LET at == {i \in 1..Len(p) : p[i] \in Separators}
    IN  SubSeq(p, (IF at = {} THEN 0 ELSE CHOOSE i \in at : \A j \in at : j <= i) + 1, Len(p))

\* C1: every name submitted to the backend is <int seconds>_<basename>, the
\* basename being the original name's last component and holding no '/' or
\* '\' at all.
C1_StoredNameIsTimestampAndCleanBasename ==
    \A r \in Requests :
        Issued(r) =>
            /\ req[r].safe_filename =
                  DecimalString(req[r].named_at \div TicksPerSecond) \o <<"_">>
                      \o LastComponent(req[r].filename)
            /\ Range(req[r].safe_filename) \cap Separators = {}

\* C2: the credential source follows the priority order: the file whenever
\* the path is set and the file exists, whatever the other two inputs are;
\* the inline key only without a usable path; the raw content only when in
\* addition the inline key is unset or empty.
C2_SourcePriority ==
    \A r \in Requests :
        req[r].source # "none" \/ Done(r) \/ req[r].drive_service =>
            /\ env.path \in {"valid", "malformed", "undecodable", "unreadable"}
                  => req[r].source = "file"
            /\ req[r].source = "key"
                  => env.path \in {"unset", "empty", "missing"}
            /\ req[r].source = "content"
                  => /\ env.path \in {"unset", "empty", "missing"}
                     /\ env.key \in {"unset", "empty"}
            /\ req[r].drive_service /\ req[r].source = "file" => env.path = "valid"

C2_Witness ==
    /\ env.path = "valid" /\ env.key = "valid" /\ env.content = "valid"
    /\ req[1].drive_service /\ req[1].source = "file"

\* C3: every failing upload is answered 500 with {error: <string>}, and the
\* kind of the message follows the cause: configuration -> configuration
\* error, backend rejection -> backend error, anything else (I/O, encoding,
\* ...) -> generic upload failure.
C3_ErrorKindFollowsCause ==
    \A r \in Requests :
        Done(r) /\ ~Succeeded(r) =>
            /\ resp[r].status = HTTP_500_INTERNAL_SERVER_ERROR
            /\ resp[r].error # None
            /\ req[r].raised # None
            /\ resp[r].error[1] =
                  (CASE req[r].raised[1].cause = "configuration" -> "Server configuration error: "
                     [] req[r].raised[1].cause = "backend" -> "Google Drive API error: "
                     [] OTHER -> "Upload failed: ")

\* C4: with a malformed inline key and no usable credentials file, the
\* request ends as 500 "Server configuration error: Invalid JSON in
\* GOOGLE_SERVICE_ACCOUNT_KEY", whatever the raw content and the folder id
\* are; no temp file is written and no backend call is issued.
C4_MalformedKeyIsHardFailure ==
    env.key = "malformed" /\ env.path \in {"unset", "empty", "missing"} =>
        /\ tempFile = "absent"
        /\ drive = {}
        /\ \A r \in Requests :
              /\ req[r].pc \in {"idle", "credentials", "done"}
              /\ ~Issued(r)
              /\ Done(r) =>
                    /\ resp[r].status = HTTP_500_INTERNAL_SERVER_ERROR
                    /\ resp[r].error = <<"Server configuration error: ", "Invalid JSON in ",
                                         "GOOGLE_SERVICE_ACCOUNT_KEY">>

C4_Witness ==
    /\ env.key = "malformed" /\ env.path = "missing"
    /\ env.content = "valid" /\ env.folder = "set"
    /\ Done(1)
    /\ resp[1].status = HTTP_500_INTERNAL_SERVER_ERROR

\* C5: a successful upload reports the backend's size as an integer when the
\* backend sent one (printed in decimal it is the string the backend sent),
\* and the byte length of the payload when the backend sent none.
C5_FileSize ==
    \A r \in Requests :
        Succeeded(r) =>
            IF req[r].uploaded_file.size = None
                THEN resp[r].file_size = Len(req[r].payload)
                ELSE DecimalString(resp[r].file_size) = req[r].uploaded_file.size[1]

C5_Witness ==
    /\ Succeeded(1)
    /\ req[1].uploaded_file.size = None
    /\ Len(req[1].payload) > 0
    /\ resp[1].file_size = Len(req[1].payload)

\* C6: an upload is all-or-nothing for the caller: a finished request got
\* 200 exactly when its object was created in the backend.
C6_AllOrNothing ==
    \A r \in Requests : Done(r) => (Created(r) <=> resp[r].status = HTTP_200_OK)

\* C7: when no credential source is usable the request ends as a 500
\* configuration error whose message names GOOGLE_SERVICE_ACCOUNT_PATH,
\* GOOGLE_SERVICE_ACCOUNT_KEY and GOOGLE_SERVICE_ACCOUNT_CONTENT.
C7_NoCredentialsNamesAllThree ==
    \A r \in Requests :
        /\ Done(r)
        /\ env.path \in {"unset", "empty", "missing"}
        /\ env.key \in {"unset", "empty"}
        /\ env.content \in {"unset", "empty"}
        => /\ resp[r].status = HTTP_500_INTERNAL_SERVER_ERROR
           /\ resp[r].error # None
           /\ resp[r].error[1] = "Server configuration error: "
           /\ {"GOOGLE_SERVICE_ACCOUNT_PATH", "GOOGLE_SERVICE_ACCOUNT_KEY",
               "GOOGLE_SERVICE_ACCOUNT_CONTENT"} \subseteq Range(resp[r].error)

\* C8: the timestamps returned by successive GET /health calls never decrease.
C8_HealthMonotone ==
    \A i, j \in 1..Len(healthLog) : i <= j => healthLog[i] <= healthLog[j]

HandlerOrder == <<"credentials", "folder", "read", "create", "return">>

\* C9: the handler's steps happen in the order credentials, folder check,
\* body read, create call, each at most once; the create call is issued only
\* with credentials resolved and a non-empty folder id; and without
\* credentials the error reported is the credentials error, also when the
\* folder id is missing too.
C9_StepOrder ==
    \A r \in Requests :
        /\ Len(req[r].steps) <= Len(HandlerOrder)
        /\ req[r].steps = SubSeq(HandlerOrder, 1, Len(req[r].steps))
        /\ Cardinality({o \in drive : o.by = r}) <= 1
        /\ (Issued(r) \/ Created(r) \/ req[r].pc = "create")
              => req[r].drive_service /\ env.folder = "set"
        /\ Done(r) /\ ~req[r].drive_service
              => /\ req[r].raised # None
                 /\ req[r].raised[1] # FolderNotSet
                 /\ req[r].steps = <<"credentials">>
        /\ Done(r) /\ SelectSource = "none" /\ env.folder # "set"
              => resp[r].error = <<"Server configuration error: ">> \o NoCredentials.msg

C9_Witness ==
    /\ Done(1) /\ Created(1)
    /\ req[1].steps = HandlerOrder

\* What get_drive_service yields for a request handled alone: None for a
\* service, or the exception raised.
AloneCredentials ==
    CASE SelectSource = "file" -> LoadFile(env.path)
      [] SelectSource = "key" -> LoadKey(env.key)
      [] SelectSource = "content" -> LoadFile(env.content)
      [] OTHER -> Some(NoCredentials)

\* C10: requests do not influence each other: a request's credentials (and
\* with them its outcome) are those the environment alone determines, also
\* when they come from temp_credentials.json.
C10_RequestsIsolated ==
    \A r \in Requests :
        "credentials" \in Range(req[r].steps) =>
            /\ req[r].drive_service = (AloneCredentials = None)
            /\ ~req[r].drive_service => req[r].raised = AloneCredentials

=============================================================================
